---- MODULE Spec2Model ----
(***************************************************************************)
(* Strigoi demo servers: the three line-oriented JSON-RPC servers on stdio *)
(* (mock-sqlite-mcp-server.py, echo-server.py, mock-mcp-server.py) and the *)
(* gemini-a2a tool server with its file-backed context store.              *)
(*                                                                         *)
(* JSON values are records tagged by ty; a JSON object carries its keys as *)
(* record fields, so that dict.get(k, d) is a test on DOMAIN.  Scalars are *)
(* written by their JSON text ("1", "null").                                *)
(***************************************************************************)
EXTENDS Integers, Sequences, FiniteSets, TLC

VARIABLES
    server,         \* which program runs: "sqlite", "echo" or "mock"
    env,            \* what the process is started with: sys.argv
    pc,             \* position in main()
    conn,           \* sqlite3 connection: "none", "open", "closed"
    store,          \* the database behind the connection
    request_count,  \* main's request_count
    line,           \* main's line (last line read)
    request,        \* main's request / message (last decoded value)
    response,       \* main's response (last response built)
    called,         \* handler entered for the current line
    outbuf,         \* text printed to sys.stdout and not yet flushed
    stdout,         \* text the reader of the output stream can see
    stderr,         \* text on the error channel
    consumed,       \* input lines read from stdin so far
    why,            \* how the loop was left: "none", "eof", "interrupt", "crash"
    exit_status,    \* process exit status, -1 while running
    files,          \* gemini: content of CONTEXT_DIR, path -> text
    now,            \* gemini: the clock read by datetime.now()
    lastTool,       \* gemini: the last call_tool invocation and its outcome
    delegate,       \* gemini: the last command line handed to the delegate
    law,            \* gemini: per key, the content last stored under it
    calls,          \* gemini: number of call_tool invocations so far
    inst            \* gemini: per instance sharing CONTEXT_DIR, where its store_context stands

stdioVars == <<server, env, pc, conn, store, request_count, line, request, response,
               called, outbuf, stdout, stderr, consumed, why, exit_status>>
geminiVars == <<files, now, lastTool, delegate, law, calls, inst>>
vars == <<server, env, pc, conn, store, request_count, line, request, response,
          called, outbuf, stdout, stderr, consumed, why, exit_status,
          files, now, lastTool, delegate, law, calls, inst>>

----------------------------------------------------------------------------
(* Bounds *)

MaxLines == 2       \* input lines read in one run
MaxRows == 2        \* rows the table t may hold
MaxCalls == 2       \* tool calls one gemini server instance serves
MaxTime == 1        \* seconds the clock advances
MaxStores == 1      \* store_context calls each of the instances sharing CONTEXT_DIR serves

----------------------------------------------------------------------------
(* JSON values and input lines *)

Unset == [ty |-> "unset"]

\* dict.get(k, d)
Get(r, k, d) == IF k \in DOMAIN r THEN r[k] ELSE d

IsObject(v) == v.ty = "obj"

Min(a, b) == IF a < b THEN a ELSE b

SQL == {"SELECT 1 AS x", "SELECT x'00' AS b", "SELECT * FROM t",
        "INSERT INTO t VALUES (1)", "INSERT INTO t VALUES (x'00')", "SELEC", "COMMIT"}

SqlParams(s) == [ty |-> "obj", sql |-> [ty |-> "str", s |-> s]]

BadParams == {[ty |-> "arr"], [ty |-> "obj"], [ty |-> "obj", sql |-> [ty |-> "num"]]}

DbCalls ==
    {[ty |-> "obj", id |-> "1", method |-> "database/query", params |-> SqlParams(s)] : s \in SQL}
      \cup
    {[ty |-> "obj", id |-> "2", method |-> "database/execute", params |-> SqlParams(s)] : s \in SQL}
      \cup
    {[ty |-> "obj", id |-> "1", method |-> "database/query", params |-> p] : p \in BadParams}
      \cup
    {[ty |-> "obj", id |-> "1", method |-> "database/query"],
     [ty |-> "obj", id |-> "2", method |-> "database/execute"],
     [ty |-> "obj", method |-> "database/query", params |-> SqlParams("SELECT 1 AS x")]}

SchemaCalls ==
    {[ty |-> "obj", id |-> i, method |-> "database/schema"] : i \in {"null", "1", "2"}}
      \cup {[ty |-> "obj", method |-> "database/schema"]}

OtherCalls ==
    {[ty |-> "obj", id |-> "1", method |-> "foo"],
     [ty |-> "obj", method |-> "foo"],
     [ty |-> "obj", id |-> "2"],
     [ty |-> "obj", id |-> "1", method |-> "query"],
     [ty |-> "obj", method |-> "query"]}

Objects == DbCalls \cup SchemaCalls \cup OtherCalls

\* JSON texts that are not objects: 5, "s", [1], null
NonObjects == {[ty |-> "num"], [ty |-> "str"], [ty |-> "arr"], [ty |-> "null"]}

\* A line is its body and whether white space surrounds the body.
Lines ==
    {[pad |-> p, body |-> [ty |-> "blank"]] : p \in BOOLEAN}
      \cup {[pad |-> p, body |-> [ty |-> "junk", s |-> <<"x">>]] : p \in BOOLEAN}
      \cup {[pad |-> FALSE, body |-> [ty |-> "json", v |-> v]] : v \in Objects \cup NonObjects}
      \cup {[pad |-> TRUE, body |-> [ty |-> "json", v |-> [ty |-> "num"]]]}

\* str.strip()
Strip(l) == [l EXCEPT !.pad = FALSE]

\* "if not line": the empty string
IsEmpty(l) == l.body.ty = "blank" /\ ~l.pad

\* json.loads(line): white space around a JSON text is accepted
LoadsOk(l) == l.body.ty = "json"
Loads(l) == l.body.v

----------------------------------------------------------------------------
(* The backing store: one table t, seen through one sqlite3 connection *)

Blob == "x'00'"

\* json.dumps raises TypeError on a bytes value
RowEncodable(row) == \A k \in DOMAIN row : row[k] # Blob

Mutating(s) == s \in {"INSERT INTO t VALUES (1)", "INSERT INTO t VALUES (x'00')"}

NeedsSchema(s) == s \in {"SELECT * FROM t", "INSERT INTO t VALUES (1)",
                         "INSERT INTO t VALUES (x'00')"}

Inserted(s) == IF s = "INSERT INTO t VALUES (1)" THEN "1" ELSE Blob

\* conn.commit()
Commit(st) == [st EXCEPT !.durable = st.table, !.in_txn = FALSE]

\* conn.execute(sql): the outcome and the store afterwards.  The sqlite3
\* module opens a transaction before the first INSERT; a COMMIT statement
\* ends the open transaction as conn.commit() does.
Execute(st, s) ==
    IF s = "SELEC"
      THEN [ok |-> FALSE, err |-> "near \"SELEC\": syntax error", st |-> st]
    ELSE IF s = "COMMIT"
      THEN IF st.in_txn
             THEN [ok |-> TRUE, rows |-> <<>>, rowcount |-> -1, st |-> Commit(st)]
             ELSE [ok |-> FALSE, err |-> "cannot commit - no transaction is active",
                   st |-> st]
    ELSE IF NeedsSchema(s) /\ st.file = "garbage"
      THEN [ok |-> FALSE, err |-> "file is not a database", st |-> st]
    ELSE IF Mutating(s)
      THEN [ok |-> TRUE, rows |-> <<>>, rowcount |-> 1,
            st |-> [st EXCEPT !.table = Append(@, Inserted(s)), !.in_txn = TRUE]]
    ELSE IF s = "SELECT 1 AS x"
      THEN [ok |-> TRUE, rows |-> <<[x |-> "1"]>>, rowcount |-> -1, st |-> st]
    ELSE IF s = "SELECT x'00' AS b"
      THEN [ok |-> TRUE, rows |-> <<[b |-> Blob]>>, rowcount |-> -1, st |-> st]
    ELSE [ok |-> TRUE, rows |-> [i \in 1..Len(st.table) |-> [v |-> st.table[i]]],
          rowcount |-> -1, st |-> st]

\* conn.close(), or the death of the process: pending changes are rolled back
Rollback(st) == [st EXCEPT !.table = st.durable, !.in_txn = FALSE]

----------------------------------------------------------------------------
(* mock-sqlite-mcp-server.py: the handlers *)

\* a plausible slip: the error envelope also carries an empty result
DbError_WithResult(req, msg) ==
    [jsonrpc |-> "2.0", id |-> Get(req, "id", "1"),
     result |-> [status |-> "error"],
     error |-> [code |-> -32000, message |-> [fmt |-> "Database error: ", arg |-> msg]]]

DbError(req, msg) ==
    [jsonrpc |-> "2.0", id |-> Get(req, "id", "1"),
     error |-> [code |-> -32000, message |-> [fmt |-> "Database error: ", arg |-> msg]]]

\* request["params"]["sql"] followed by sql[:100]: the exception raised, or "none"
SqlLookupError(req) ==
    IF "params" \notin DOMAIN req THEN "'params'"
    ELSE IF req.params.ty # "obj" THEN "list indices must be integers or slices, not str"
    ELSE IF "sql" \notin DOMAIN req.params THEN "'sql'"
    ELSE IF req.params.sql.ty # "str" THEN "'int' object is not subscriptable"
    ELSE "none"

handle_query(st, req) ==
    IF SqlLookupError(req) # "none"
      THEN [response |-> DbError(req, SqlLookupError(req)), st |-> st]
    ELSE LET r == Execute(st, req.params.sql.s) IN
      IF ~r.ok THEN [response |-> DbError(req, r.err), st |-> r.st]
      ELSE [response |-> [jsonrpc |-> "2.0", id |-> Get(req, "id", "1"),
                          result |-> [data |-> r.rows, row_count |-> Len(r.rows),
                                      status |-> "success"]],
            st |-> r.st]

handle_execute(st, req) ==
    IF SqlLookupError(req) # "none"
      THEN [response |-> DbError(req, SqlLookupError(req)), st |-> st]
    ELSE LET r == Execute(st, req.params.sql.s) IN
      IF ~r.ok THEN [response |-> DbError(req, r.err), st |-> r.st]
      ELSE [response |-> [jsonrpc |-> "2.0", id |-> Get(req, "id", "1"),
                          result |-> [rows_affected |-> r.rowcount, status |-> "success"]],
            st |-> Commit(r.st)]

\* the table t has the one column v
SchemaInfo == <<[table |-> "t",
                 columns |-> <<[name |-> "v", type |-> "", not_null |-> FALSE,
                                primary_key |-> FALSE]>>]>>

handle_schema(st, req) ==
    IF st.file = "garbage"
      THEN [response |-> DbError(req, "file is not a database"), st |-> st]
    ELSE [response |-> [jsonrpc |-> "2.0", id |-> Get(req, "id", "1"),
                        result |-> [tables |-> SchemaInfo, status |-> "success"]],
          st |-> st]

\* a plausible slip: the unknown method reported with the code of a store error
MethodNotFound_WrongCode(req) ==
    [jsonrpc |-> "2.0", id |-> Get(req, "id", "1"),
     error |-> [code |-> -32000,
                message |-> [fmt |-> "Method not found: ", arg |-> Get(req, "method", "None")]]]

MethodNotFound(req) ==
    [jsonrpc |-> "2.0", id |-> Get(req, "id", "1"),
     error |-> [code |-> -32601,
                message |-> [fmt |-> "Method not found: ", arg |-> Get(req, "method", "None")]]]

\* the if/elif chain of main: which handler answers the request
HandlerFor(req) ==
    IF Get(req, "method", "None") = "database/query" THEN "handle_query"
    ELSE IF Get(req, "method", "None") = "database/execute" THEN "handle_execute"
    ELSE IF Get(req, "method", "None") = "database/schema" THEN "handle_schema"
    ELSE "none"

Dispatch(st, req) ==
    IF HandlerFor(req) = "handle_query" THEN handle_query(st, req)
    ELSE IF HandlerFor(req) = "handle_execute" THEN handle_execute(st, req)
    ELSE IF HandlerFor(req) = "handle_schema" THEN handle_schema(st, req)
    ELSE [response |-> MethodNotFound(req), st |-> st]

\* json.dumps(response): only the rows of a query result can hold bytes
Encodable(resp) ==
    \/ "result" \notin DOMAIN resp
    \/ "data" \notin DOMAIN resp.result
    \/ \A i \in 1..Len(resp.result.data) : RowEncodable(resp.result.data[i])

\* the line print(json.dumps(response)) writes
Dumps(resp) == [ty |-> "json", v |-> resp]

LogLimit == 50

\* line[:50]
Truncate(s) == SubSeq(s, 1, Min(Len(s), LogLimit))

Log(msg) == [msg |-> msg]

----------------------------------------------------------------------------
(* mock-sqlite-mcp-server.py: main *)

NoStore == [file |-> "none", table |-> <<>>, durable |-> <<>>, in_txn |-> FALSE]

\* an uncaught exception leaves main: traceback, exit status 1; the
\* interpreter flushes sys.stdout on its way out and the connection dies
\* with the process
Crash(exc) ==
    /\ pc' = "exited"
    /\ why' = "crash"
    /\ exit_status' = 1
    /\ stderr' = Append(stderr, [msg |-> "Traceback", exc |-> exc])
    /\ stdout' = stdout \o outbuf
    /\ outbuf' = <<>>
    /\ store' = Rollback(store)

StartupLogs == <<Log("Starting"), Log("Database"), Log("Connection string"),
                 Log("FULL PRIVILEGES"), Log("PID"), Log("Ready")>>

\* a plausible slip: the os.path.exists test left out
StartupFailure_NoExistsTest(e, st) ==
    IF e.argc < 2 THEN "usage"
    ELSE IF ~e.prefix THEN "connection string"
    ELSE IF st.file = "directory" THEN "connect"
    ELSE "none"

\* lines 13-47: the first of the start-up tests that fails, or "none".
\* os.path.exists fails on a missing file, sqlite3.connect on a directory.
StartupFailure(e, st) ==
    IF e.argc < 2 THEN "usage"
    ELSE IF ~e.prefix THEN "connection string"
    ELSE IF st.file = "missing" THEN "not found"
    ELSE IF st.file = "directory" THEN "connect"
    ELSE "none"

\* lines 13-50: argument, connection string, database file, connect
SqliteStartup ==
    /\ server = "sqlite"
    /\ pc = "start"
    /\ IF StartupFailure(env, store) = "usage"
         THEN /\ stdout' = stdout \o <<[ty |-> "banner", text |-> "Usage"],
                                        [ty |-> "banner", text |-> "Example"]>>
              /\ pc' = "exited" /\ exit_status' = 1
              /\ UNCHANGED <<stderr, conn, request_count>>
       ELSE IF StartupFailure(env, store) = "connection string"
         THEN /\ stderr' = Append(stderr, Log("[ERROR] Invalid SQLite connection string"))
              /\ pc' = "exited" /\ exit_status' = 1
              /\ UNCHANGED <<stdout, conn, request_count>>
       ELSE IF StartupFailure(env, store) = "not found"
         THEN /\ stderr' = stderr \o StartupLogs \o <<Log("[ERROR] Database file not found")>>
              /\ pc' = "exited" /\ exit_status' = 1
              /\ UNCHANGED <<stdout, conn, request_count>>
       ELSE IF StartupFailure(env, store) = "connect"
         THEN /\ stderr' = stderr \o StartupLogs \o <<Log("[ERROR] Failed to connect to database")>>
              /\ pc' = "exited" /\ exit_status' = 1
              /\ UNCHANGED <<stdout, conn, request_count>>
       ELSE /\ stderr' = stderr \o StartupLogs \o <<Log("Connected to database successfully")>>
            /\ conn' = "open"
            /\ request_count' = 0
            /\ pc' = "read"
            /\ UNCHANGED <<stdout, exit_status>>
    /\ UNCHANGED <<server, env, store, line, request, response, called, outbuf, consumed, why>>
    /\ UNCHANGED geminiVars

\* the input offered keeps the table within MaxRows
Offered(l) ==
    IF l.body.ty # "json" THEN TRUE
    ELSE IF ~IsObject(l.body.v) THEN TRUE
    ELSE IF SqlLookupError(l.body.v) # "none" THEN TRUE
    ELSE IF ~Mutating(l.body.v.params.sql.s) THEN TRUE
    ELSE Len(store.table) < MaxRows

\* lines 54-59: input().strip(), the blank-line test, the request counter
SqliteRead ==
    /\ server = "sqlite"
    /\ pc = "read"
    /\ Len(consumed) < MaxLines
    /\ \E l \in Lines :
         /\ Offered(l)
         /\ consumed' = Append(consumed, l)
         /\ line' = Strip(l)
         /\ IF IsEmpty(Strip(l))
              THEN UNCHANGED <<pc, request_count, stderr, called>>
              ELSE /\ request_count' = request_count + 1
                   /\ stderr' = Append(stderr, [msg |-> "Processing request #",
                                                n |-> request_count + 1])
                   /\ called' = "none"
                   /\ pc' = "decode"
    /\ UNCHANGED <<server, env, conn, store, request, response, outbuf, stdout, why, exit_status>>
    /\ UNCHANGED geminiVars

\* lines 89-91: input() raises EOFError
SqliteEOF ==
    /\ server = "sqlite"
    /\ pc = "read"
    /\ why' = "eof"
    /\ stderr' = Append(stderr, Log("EOF received, shutting down..."))
    /\ pc' = "cleanup"
    /\ UNCHANGED <<server, env, conn, store, request_count, line, request, response, called,
                   outbuf, stdout, consumed, exit_status>>
    /\ UNCHANGED geminiVars

\* lines 92-94: KeyboardInterrupt anywhere inside the try of the loop
SqliteInterrupt ==
    /\ server = "sqlite"
    /\ pc \in {"read", "decode", "print", "flush"}
    /\ why' = "interrupt"
    /\ stderr' = Append(stderr, Log("Interrupted, shutting down..."))
    /\ pc' = "cleanup"
    /\ UNCHANGED <<server, env, conn, store, request_count, line, request, response, called,
                   outbuf, stdout, consumed, exit_status>>
    /\ UNCHANGED geminiVars

\* lines 61-79 and 85-87: json.loads, the method chain, the handler
SqliteDispatch ==
    /\ server = "sqlite"
    /\ pc = "decode"
    /\ IF ~LoadsOk(line)
         THEN /\ stderr' = Append(stderr, [msg |-> "Invalid JSON received: ",
                                           text |-> Truncate(line.body.s)])
              /\ pc' = "read"
              /\ UNCHANGED <<request, response, called, store, why, exit_status,
                             stdout, outbuf>>
       ELSE IF ~IsObject(Loads(line))
         THEN /\ request' = Loads(line)
              /\ Crash("AttributeError")
              /\ UNCHANGED <<response, called>>
       ELSE /\ request' = Loads(line)
            /\ called' = HandlerFor(Loads(line))
            /\ response' = Dispatch(store, Loads(line)).response
            /\ store' = Dispatch(store, Loads(line)).st
            /\ stderr' = IF HandlerFor(Loads(line)) = "none" THEN stderr
                         ELSE Append(stderr, [msg |-> "handler",
                                              name |-> HandlerFor(Loads(line))])
            /\ pc' = "print"
            /\ UNCHANGED <<why, exit_status, stdout, outbuf>>
    /\ UNCHANGED <<server, env, conn, request_count, line, consumed>>
    /\ UNCHANGED geminiVars

\* line 82: print(json.dumps(response))
SqlitePrint ==
    /\ server = "sqlite"
    /\ pc = "print"
    /\ IF Encodable(response)
         THEN /\ outbuf' = Append(outbuf, Dumps(response))
              /\ pc' = "flush"
              /\ UNCHANGED <<stdout, stderr, store, why, exit_status>>
         ELSE Crash("TypeError")
    /\ UNCHANGED <<server, env, conn, request_count, line, request, response, called, consumed>>
    /\ UNCHANGED geminiVars

\* a plausible slip: the flush left out, the response stays in the buffer
SqliteFlush_Missing ==
    /\ server = "sqlite"
    /\ pc = "flush"
    /\ pc' = "read"
    /\ UNCHANGED <<server, env, conn, store, request_count, line, request, response, called,
                   outbuf, stdout, stderr, consumed, why, exit_status>>
    /\ UNCHANGED geminiVars

\* line 83: sys.stdout.flush()
SqliteFlush ==
    /\ server = "sqlite"
    /\ pc = "flush"
    /\ stdout' = stdout \o outbuf
    /\ outbuf' = <<>>
    /\ pc' = "read"
    /\ UNCHANGED <<server, env, conn, store, request_count, line, request, response, called,
                   stderr, consumed, why, exit_status>>
    /\ UNCHANGED geminiVars

\* lines 96-99, then the return of main: exit status 0
SqliteCleanup ==
    /\ server = "sqlite"
    /\ pc = "cleanup"
    /\ conn' = "closed"
    /\ store' = Rollback(store)
    /\ stderr' = stderr \o <<[msg |-> "Processed requests", n |-> request_count],
                             Log("Connection closed")>>
    /\ stdout' = stdout \o outbuf
    /\ outbuf' = <<>>
    /\ exit_status' = 0
    /\ pc' = "exited"
    /\ UNCHANGED <<server, env, request_count, line, request, response, called, consumed, why>>
    /\ UNCHANGED geminiVars

SqliteNext ==
    \/ SqliteStartup
    \/ SqliteRead
    \/ SqliteEOF
    \/ SqliteInterrupt
    \/ SqliteDispatch
    \/ SqlitePrint
    \/ SqliteFlush
    \/ SqliteCleanup

----------------------------------------------------------------------------
(* echo-server.py *)

\* lines 14-22: the usage test and the two banners, printed to sys.stdout
EchoStartup ==
    /\ server = "echo"
    /\ pc = "start"
    /\ IF env.argc < 2
         THEN /\ stdout' = Append(stdout, [ty |-> "banner", text |-> "Usage"])
              /\ pc' = "exited" /\ exit_status' = 1
              /\ UNCHANGED outbuf
         ELSE /\ outbuf' = outbuf \o <<[ty |-> "banner", text |-> "[SERVER] Starting echo server..."],
                                        [ty |-> "banner", text |-> "[SERVER] Initialized with connection"]>>
              /\ pc' = "read"
              /\ UNCHANGED <<stdout, exit_status>>
    /\ UNCHANGED <<server, env, conn, store, request_count, line, request, response, called,
                   stderr, consumed, why>>
    /\ UNCHANGED geminiVars

\* a plausible slip: the line is stripped before it is echoed
Marked_Stripped(marker, l) == [ty |-> "text", marker |-> marker, line |-> Strip(l)]

\* lines 57 (echo) and 62 (mock): the marker followed by the line as read
Marked(marker, l) == [ty |-> "text", marker |-> marker, line |-> l]

\* lines 35-49
EchoResponse(message) ==
    IF Get(message, "method", "None") = "query"
      THEN [jsonrpc |-> "2.0", id |-> Get(message, "id", "null"),
            result |-> [data |-> "Query executed on connection_string", status |-> "success"]]
      ELSE [jsonrpc |-> "2.0", id |-> Get(message, "id", "null"),
            result |-> [ty |-> "str", fmt |-> "Echo: ", arg |-> message]]

\* lines 28-58: one turn of the loop
EchoLine ==
    /\ server = "echo"
    /\ pc = "read"
    /\ Len(consumed) < MaxLines
    /\ \E l \in Lines :
         /\ consumed' = Append(consumed, l)
         /\ line' = l
         /\ IF ~LoadsOk(l)
              THEN /\ stdout' = (stdout \o outbuf) \o <<Marked("[ECHO] ", l)>>
                   /\ outbuf' = <<>>
                   /\ UNCHANGED <<pc, request, response, why, exit_status, stderr, store>>
            ELSE IF ~IsObject(Loads(l))
              THEN /\ request' = Loads(l)
                   /\ Crash("AttributeError")
                   /\ UNCHANGED response
            ELSE /\ request' = Loads(l)
                 /\ response' = EchoResponse(Loads(l))
                 /\ stdout' = (stdout \o outbuf) \o <<Dumps(EchoResponse(Loads(l)))>>
                 /\ outbuf' = <<>>
                 /\ UNCHANGED <<pc, why, exit_status, stderr, store>>
    /\ UNCHANGED <<server, env, conn, request_count, called>>
    /\ UNCHANGED geminiVars

\* lines 60-66: EOFError or KeyboardInterrupt, the last print, exit status 0
EchoStop ==
    /\ server = "echo"
    /\ pc = "read"
    /\ \E reason \in {"eof", "interrupt"} :
         /\ why' = reason
         /\ stdout' = (stdout \o outbuf) \o
                        (IF reason = "interrupt"
                           THEN <<[ty |-> "banner", text |-> "[SERVER] Shutting down..."]>>
                           ELSE <<>>) \o
                        <<[ty |-> "banner", text |-> "[SERVER] Final connection used"]>>
    /\ outbuf' = <<>>
    /\ exit_status' = 0
    /\ pc' = "exited"
    /\ UNCHANGED <<server, env, conn, store, request_count, line, request, response, called,
                   stderr, consumed>>
    /\ UNCHANGED geminiVars

EchoNext ==
    \/ EchoStartup
    \/ EchoLine
    \/ EchoStop

----------------------------------------------------------------------------
(* mock-mcp-server.py *)

\* lines 12-27: the start-up notices go to sys.stderr
MockStartup ==
    /\ server = "mock"
    /\ pc = "start"
    /\ stderr' = stderr \o <<Log("[GENERIC] Starting MCP generic server..."),
                             Log("[GENERIC] Ready for JSON-RPC commands")>>
    /\ pc' = "read"
    /\ UNCHANGED <<server, env, conn, store, request_count, line, request, response, called,
                   outbuf, stdout, consumed, why, exit_status>>
    /\ UNCHANGED geminiVars

MockData == <<[id |-> "1", user |-> "alice", balance |-> "$12,345.67"],
              [id |-> "2", user |-> "bob", balance |-> "$98,765.43"]>>

\* lines 40-55
MockResponse(req) ==
    IF Get(req, "method", "None") = "query"
      THEN [jsonrpc |-> "2.0", id |-> Get(req, "id", "1"),
            result |-> [status |-> "success", server |-> "generic",
                        message |-> [fmt |-> "Processed ", arg |-> Get(req, "method", "unknown")],
                        data |-> MockData]]
      ELSE [jsonrpc |-> "2.0", id |-> Get(req, "id", "1"),
            result |-> [status |-> "success", server |-> "generic",
                        message |-> [fmt |-> "Processed ", arg |-> Get(req, "method", "unknown")]]]

\* lines 33-63: one turn of the loop
MockLine ==
    /\ server = "mock"
    /\ pc = "read"
    /\ Len(consumed) < MaxLines
    /\ \E l \in Lines :
         /\ consumed' = Append(consumed, l)
         /\ line' = l
         /\ IF ~LoadsOk(l)
              THEN /\ stdout' = (stdout \o outbuf) \o
                                  <<Marked("[GENERIC] ECHO: ", l)>>
                   /\ outbuf' = <<>>
                   /\ UNCHANGED <<pc, request, response, why, exit_status, stderr, store>>
            ELSE IF ~IsObject(Loads(l))
              THEN /\ request' = Loads(l)
                   /\ Crash("AttributeError")
                   /\ UNCHANGED response
            ELSE /\ request' = Loads(l)
                 /\ response' = MockResponse(Loads(l))
                 /\ stdout' = (stdout \o outbuf) \o <<Dumps(MockResponse(Loads(l)))>>
                 /\ outbuf' = <<>>
                 /\ UNCHANGED <<pc, why, exit_status, stderr, store>>
    /\ UNCHANGED <<server, env, conn, request_count, called>>
    /\ UNCHANGED geminiVars

\* lines 65-74: EOFError or KeyboardInterrupt, the closing notices, exit status 0
MockStop ==
    /\ server = "mock"
    /\ pc = "read"
    /\ \E reason \in {"eof", "interrupt"} :
         /\ why' = reason
         /\ stderr' = stderr \o
                        (IF reason = "interrupt" THEN <<Log("[GENERIC] Shutting down...")>>
                                                 ELSE <<>>) \o
                        <<Log("[GENERIC] Closing connections...")>>
    /\ stdout' = stdout \o outbuf
    /\ outbuf' = <<>>
    /\ exit_status' = 0
    /\ pc' = "exited"
    /\ UNCHANGED <<server, env, conn, store, request_count, line, request, response, called,
                   consumed>>
    /\ UNCHANGED geminiVars

MockNext ==
    \/ MockStartup
    \/ MockLine
    \/ MockStop

----------------------------------------------------------------------------
(* mcp-servers/gemini-a2a/server.py                                        *)
(*                                                                         *)
(* A text is a sequence of pieces, so that appending to a file is \o.  A   *)
(* key is the sequence of its path components ("./a" is <<".", "a">>), a   *)
(* path the components pathlib keeps.                                      *)

NoKey == <<>>       \* arguments.get("context_key") is None

Keys == {<<"">>, <<"a">>, <<".", "a">>, <<"persistent_memory">>}

Contents == {<<[s |-> "c1"]>>, <<[s |-> "c2"]>>}

\* metadata: absent, {} or {"m": 1}
Metadatas == {"absent", "empty", "m"}

NoPath == [dir |-> <<>>, stem |-> "", ts |-> -1, suffix |-> "none"]

NotDot(c) == c # "."

\* CONTEXT_DIR / f"{key}{suffix}": pathlib drops the "." components
ContextPath(key, suffix) ==
    [dir |-> SelectSeq(SubSeq(key, 1, Len(key) - 1), NotDot),
     stem |-> key[Len(key)], ts |-> -1, suffix |-> suffix]

\* CONTEXT_DIR / f"response_{now:%Y%m%d_%H%M%S}.txt"
ResponsePath(t) == [dir |-> <<>>, stem |-> "response_", ts |-> t, suffix |-> ".txt"]

MemoryPath == ContextPath(<<"persistent_memory">>, ".context")
AnalysisPath == ContextPath(<<"codebase_analysis">>, ".context")

\* Path.write_text(text)
WriteText(fs, path, text) == (path :> text) @@ fs

\* "if context_key:" is false for None and for the empty string
Truthy(key) == key # NoKey /\ key # <<"">>

\* lines 32-37: the command line; the context file is named only if it exists
Command(tool, prompt, context_file, fs) ==
    IF context_file # NoPath /\ context_file \in DOMAIN fs
      THEN [tool |-> tool, prompt |-> prompt, has_context |-> TRUE,
            context_file |-> context_file, handed |-> fs[context_file]]
      ELSE [tool |-> tool, prompt |-> prompt, has_context |-> FALSE,
            context_file |-> NoPath, handed |-> <<>>]

\* how the delegate ends: it runs and exits 0, the executable is absent, it
\* exits with a non-zero status
Outcomes == {"ok", "absent", "nonzero"}

\* a plausible slip: the fallback text leaves out the marker and the prompt
GeminiText_Unmarked(prompt, outcome) ==
    IF outcome = "absent"
      THEN <<[s |-> "Install gemini-cli for real responses"]>>
      ELSE <<[s |-> "gemini stdout"]>>

\* lines 39-53: the text returned by call_gemini when it returns
GeminiText(prompt, outcome) ==
    IF outcome = "absent"
      THEN <<[s |-> "[Mock Gemini Response]"], [s |-> prompt],
             [s |-> "Install gemini-cli for real responses"]>>
      ELSE <<[s |-> "gemini stdout"]>>

\* what call_tool gives back: a result, or GeminiError leaving the handler
Returned(name, text) == [name |-> name, raised |-> "none", text |-> text]
Raised(name) == [name |-> name, raised |-> "GeminiError", text |-> <<[s |-> "Gemini failed: stderr"]>>]

\* the record of a call: its result, how the delegate ended ("none" when the
\* tool does not call it) and the arguments it was called with
Invoked(result, outcome, args) ==
    [name |-> result.name, raised |-> result.raised, text |-> result.text,
     outcome |-> outcome, args |-> args]

Forget == [k \in Keys |-> <<[s |-> "nothing"]>>]

\* the clock moves on between calls
Tick ==
    /\ server = "gemini"
    /\ now < MaxTime
    /\ now' = now + 1
    /\ UNCHANGED <<files, lastTool, delegate, law, calls>>
    /\ UNCHANGED inst
    /\ UNCHANGED stdioVars

\* the server processes started on the same CONTEXT_DIR (lines 22-24)
Instances == {1, 2}

\* an instance that is in no store_context call
Resting == [pc |-> "idle", key |-> NoKey, content |-> <<>>, metadata |-> "absent",
            at |-> 0, stored |-> 0]

\* a plausible slip: the response file is written before the delegate's exit
\* status is looked at, so a failure leaves a file too
QueryGemini_StoresFailure ==
    /\ server = "gemini"
    /\ calls < MaxCalls
    /\ calls' = calls + 1
    /\ \E context_key \in Keys \cup {NoKey}, store_response \in BOOLEAN, outcome \in Outcomes :
         LET context_file == IF Truthy(context_key)
                               THEN ContextPath(context_key, ".context") ELSE NoPath
             cmd == [Command("query_gemini", "prompt", context_file, files)
                       EXCEPT !.tool = [name |-> "query_gemini", context_key |-> context_key]]
         IN  /\ delegate' = cmd
             /\ lastTool' = Invoked(IF outcome = "nonzero" THEN Raised("query_gemini")
                                     ELSE Returned("query_gemini",
                                                   GeminiText("prompt", outcome)),
                                     outcome,
                                     [context_key |-> context_key,
                                      store_response |-> store_response])
             /\ files' = IF store_response
                           THEN WriteText(files, ResponsePath(now),
                                          GeminiText("prompt", outcome))
                           ELSE files
    /\ UNCHANGED <<now, law>>
    /\ UNCHANGED inst
    /\ UNCHANGED stdioVars

\* lines 168-189
QueryGemini ==
    /\ server = "gemini"
    /\ calls < MaxCalls
    /\ calls' = calls + 1
    /\ \E context_key \in Keys \cup {NoKey}, store_response \in BOOLEAN, outcome \in Outcomes :
         LET context_file == IF Truthy(context_key)
                               THEN ContextPath(context_key, ".context") ELSE NoPath
             cmd == [Command("query_gemini", "prompt", context_file, files)
                       EXCEPT !.tool = [name |-> "query_gemini", context_key |-> context_key]]
         IN  /\ delegate' = cmd
             /\ IF outcome = "nonzero"
                  THEN /\ lastTool' = Invoked(Raised("query_gemini"), outcome,
                                               [context_key |-> context_key,
                                                store_response |-> store_response])
                       /\ UNCHANGED files
                  ELSE /\ lastTool' = Invoked(Returned("query_gemini",
                                                        GeminiText("prompt", outcome)),
                                               outcome,
                                               [context_key |-> context_key,
                                                store_response |-> store_response])
                       /\ files' = IF store_response
                                     THEN WriteText(files, ResponsePath(now),
                                                    GeminiText("prompt", outcome))
                                     ELSE files
    /\ UNCHANGED <<now, law>>
    /\ UNCHANGED inst
    /\ UNCHANGED stdioVars

\* lines 191-229: the files found under path, written to the analysis context
AnalyzeCodebase ==
    /\ server = "gemini"
    /\ calls < MaxCalls
    /\ calls' = calls + 1
    /\ \E found \in {<<>>, <<[s |-> "=== File: main.go ==="], [s |-> "package main"]>>},
          outcome \in Outcomes :
         /\ files' = WriteText(files, AnalysisPath, found)
         /\ delegate' = [Command("analyze_codebase", "analysis_prompt", AnalysisPath,
                                 WriteText(files, AnalysisPath, found))
                           EXCEPT !.tool = [name |-> "analyze_codebase", context_key |-> NoKey]]
         /\ lastTool' = Invoked(IF outcome = "nonzero" THEN Raised("analyze_codebase")
                                 ELSE Returned("analyze_codebase",
                                               GeminiText("analysis_prompt", outcome)),
                                 outcome, [found |-> found])
    /\ law' = Forget
    /\ UNCHANGED now
    /\ UNCHANGED inst
    /\ UNCHANGED stdioVars

\* lines 241-246: the metadata file is written only for non-empty metadata
WithMeta(fs, key, metadata, t) ==
    IF metadata = "m"
      THEN WriteText(fs, ContextPath(key, ".meta.json"),
                     <<[stored_at |-> t, metadata |-> metadata]>>)
      ELSE fs

\* lines 231-251
StoreContext ==
    /\ server = "gemini"
    /\ calls < MaxCalls
    /\ calls' = calls + 1
    /\ \E key \in Keys, content \in Contents, metadata \in Metadatas :
         /\ files' = WithMeta(WriteText(files, ContextPath(key, ".context"), content),
                              key, metadata, now)
         /\ lastTool' = Invoked(Returned("store_context",
                                          <<[s |-> "Context stored with key: "],
                                            [key |-> key]>>),
                                 "none",
                                 [key |-> key, content |-> content, metadata |-> metadata,
                                  at |-> now])
         /\ law' = [law EXCEPT ![key] = content]
    /\ UNCHANGED <<now, delegate>>
    /\ UNCHANGED inst
    /\ UNCHANGED stdioVars

\* a plausible slip: the entry replaces the memory instead of extending it
Appended_Overwrites(existing, t, topic, information) ==
    <<[sep |-> "\n\n", at |-> t, topic |-> topic, information |-> information]>>

\* line 270: existing + f"\n\n[{now}] {topic}:\n{information}"
Appended(existing, t, topic, information) ==
    existing \o <<[sep |-> "\n\n", at |-> t, topic |-> topic, information |-> information]>>

\* a plausible slip: the delegate is called first, on the record as it was,
\* and the entry is written only when the delegate has returned
GeminiRemember_DelegatesFirst ==
    /\ server = "gemini"
    /\ calls < MaxCalls
    /\ calls' = calls + 1
    /\ \E topic \in {"t1"}, information \in {"i1", "i2"}, outcome \in Outcomes :
         LET existing == IF MemoryPath \in DOMAIN files THEN files[MemoryPath] ELSE <<>>
             written == WriteText(files, MemoryPath,
                                  Appended(existing, now, topic, information))
         IN  /\ files' = IF outcome = "nonzero" THEN files ELSE written
             /\ delegate' = [Command("gemini_remember", "memory_prompt", MemoryPath, files)
                               EXCEPT !.tool = [name |-> "gemini_remember", context_key |-> NoKey]]
             /\ lastTool' = Invoked(IF outcome = "nonzero" THEN Raised("gemini_remember")
                                     ELSE Returned("gemini_remember",
                                                   GeminiText("memory_prompt", outcome)),
                                     outcome, [topic |-> topic, information |-> information])
    /\ law' = Forget
    /\ UNCHANGED now
    /\ UNCHANGED inst
    /\ UNCHANGED stdioVars

\* lines 253-277: the entry is appended to the memory file, then the delegate is called
GeminiRemember ==
    /\ server = "gemini"
    /\ calls < MaxCalls
    /\ calls' = calls + 1
    /\ \E topic \in {"t1"}, information \in {"i1", "i2"}, outcome \in Outcomes :
         LET existing == IF MemoryPath \in DOMAIN files THEN files[MemoryPath] ELSE <<>>
             written == WriteText(files, MemoryPath,
                                  Appended(existing, now, topic, information))
         IN  /\ files' = written
             /\ delegate' = [Command("gemini_remember", "memory_prompt", MemoryPath, written)
                               EXCEPT !.tool = [name |-> "gemini_remember", context_key |-> NoKey]]
             /\ lastTool' = Invoked(IF outcome = "nonzero" THEN Raised("gemini_remember")
                                     ELSE Returned("gemini_remember",
                                                   GeminiText("memory_prompt", outcome)),
                                     outcome, [topic |-> topic, information |-> information])
    /\ law' = Forget
    /\ UNCHANGED now
    /\ UNCHANGED inst
    /\ UNCHANGED stdioVars

\* lines 279-298
GeminiRecall ==
    /\ server = "gemini"
    /\ calls < MaxCalls
    /\ calls' = calls + 1
    /\ \E outcome \in Outcomes :
         /\ delegate' = [Command("gemini_recall", "recall_prompt", MemoryPath, files)
                           EXCEPT !.tool = [name |-> "gemini_recall", context_key |-> NoKey]]
         /\ lastTool' = Invoked(IF outcome = "nonzero" THEN Raised("gemini_recall")
                                 ELSE Returned("gemini_recall",
                                               GeminiText("recall_prompt", outcome)),
                                 outcome, [topic |-> "t1"])
    /\ UNCHANGED <<files, now, law>>
    /\ UNCHANGED inst
    /\ UNCHANGED stdioVars

\* lines 300-304
UnknownTool ==
    /\ server = "gemini"
    /\ calls < MaxCalls
    /\ calls' = calls + 1
    /\ lastTool' = Invoked(Returned("no_such_tool",
                                     <<[s |-> "Unknown tool: "], [s |-> "no_such_tool"]>>),
                            "none", [name |-> "no_such_tool"])
    /\ UNCHANGED <<files, now, delegate, law>>
    /\ UNCHANGED inst
    /\ UNCHANGED stdioVars

GeminiIdle ==
    /\ files = <<>>
    /\ now = 0
    /\ lastTool = Invoked(Returned("none", <<>>), "none", [name |-> "none"])
    /\ delegate = [tool |-> [name |-> "none", context_key |-> NoKey], prompt |-> "",
                   has_context |-> FALSE, context_file |-> NoPath, handed |-> <<>>]
    /\ law = Forget
    /\ calls = 0
    /\ inst = [i \in Instances |-> Resting]

InitGemini ==
    /\ server = "gemini"
    /\ env = [argc |-> 1, prefix |-> TRUE]
    /\ pc = "serving"
    /\ conn = "none"
    /\ store = NoStore
    /\ request_count = 0
    /\ line = Unset
    /\ request = Unset
    /\ response = Unset
    /\ called = "none"
    /\ outbuf = <<>>
    /\ stdout = <<>>
    /\ stderr = <<>>
    /\ consumed = <<>>
    /\ why = "none"
    /\ exit_status = -1
    /\ GeminiIdle

\* -------- two instances on one CONTEXT_DIR --------

\* two spellings of one file name, and another key
SharedKeys == {<<"a">>, <<".", "a">>, <<"">>}

\* contents of different lengths, as texts are
SharedContents == Contents \cup {<<[s |-> "c1"], [s |-> "c2"]>>}

\* open(path, 'w'): the file exists and is empty, the position is 0
Truncated(fs, path) == WriteText(fs, path, <<>>)

\* write() and close() on a descriptor opened with 'w': the data lands at
\* position 0, over whatever the file holds by then
WrittenAt0(fs, path, data) ==
    WriteText(fs, path, data \o SubSeq(fs[path], Len(data) + 1, Len(fs[path])))

\* lines 231-235: call_tool enters the store_context branch
SharedBegin(i) ==
    /\ server = "gemini"
    /\ inst[i].pc = "idle"
    /\ inst[i].stored < MaxStores
    /\ \E key \in SharedKeys, content \in SharedContents, metadata \in Metadatas :
         inst' = [inst EXCEPT ![i] = [pc |-> "open_context", key |-> key,
                                      content |-> content, metadata |-> metadata,
                                      at |-> now, stored |-> inst[i].stored]]
    /\ UNCHANGED <<files, now, lastTool, delegate, law, calls>>
    /\ UNCHANGED stdioVars

\* lines 237-238, write_text: the open
SharedOpenContext(i) ==
    /\ server = "gemini"
    /\ inst[i].pc = "open_context"
    /\ files' = Truncated(files, ContextPath(inst[i].key, ".context"))
    /\ inst' = [inst EXCEPT ![i].pc = "write_context"]
    /\ UNCHANGED <<now, lastTool, delegate, law, calls>>
    /\ UNCHANGED stdioVars

\* lines 237-238, write_text: the write and the close
SharedWriteContext(i) ==
    /\ server = "gemini"
    /\ inst[i].pc = "write_context"
    /\ files' = WrittenAt0(files, ContextPath(inst[i].key, ".context"), inst[i].content)
    /\ inst' = [inst EXCEPT ![i].pc = IF inst[i].metadata = "m" THEN "open_meta"
                                                                 ELSE "return"]
    /\ UNCHANGED <<now, lastTool, delegate, law, calls>>
    /\ UNCHANGED stdioVars

\* lines 241-246: the text is built, reading the time (line 244), and the file opened
SharedOpenMeta(i) ==
    /\ server = "gemini"
    /\ inst[i].pc = "open_meta"
    /\ files' = Truncated(files, ContextPath(inst[i].key, ".meta.json"))
    /\ inst' = [inst EXCEPT ![i].pc = "write_meta", ![i].at = now]
    /\ UNCHANGED <<now, lastTool, delegate, law, calls>>
    /\ UNCHANGED stdioVars

\* lines 243-246: json.dump and the close
SharedWriteMeta(i) ==
    /\ server = "gemini"
    /\ inst[i].pc = "write_meta"
    /\ files' = WrittenAt0(files, ContextPath(inst[i].key, ".meta.json"),
                           <<[stored_at |-> inst[i].at, metadata |-> inst[i].metadata]>>)
    /\ inst' = [inst EXCEPT ![i].pc = "return"]
    /\ UNCHANGED <<now, lastTool, delegate, law, calls>>
    /\ UNCHANGED stdioVars

\* lines 248-251: the result goes back to the caller
SharedReturn(i) ==
    /\ server = "gemini"
    /\ inst[i].pc = "return"
    /\ inst' = [inst EXCEPT ![i].pc = "idle", ![i].stored = inst[i].stored + 1]
    /\ UNCHANGED <<files, now, lastTool, delegate, law, calls>>
    /\ UNCHANGED stdioVars

NextShared ==
    \/ Tick
    \/ \E i \in Instances : SharedBegin(i)
    \/ \E i \in Instances : SharedOpenContext(i)
    \/ \E i \in Instances : SharedWriteContext(i)
    \/ \E i \in Instances : SharedOpenMeta(i)
    \/ \E i \in Instances : SharedWriteMeta(i)
    \/ \E i \in Instances : SharedReturn(i)

NextGemini ==
    \/ Tick
    \/ QueryGemini
    \/ AnalyzeCodebase
    \/ StoreContext
    \/ GeminiRemember
    \/ GeminiRecall
    \/ UnknownTool

SpecGemini == InitGemini /\ [][NextGemini]_vars

SpecShared == InitGemini /\ [][NextShared]_vars

----------------------------------------------------------------------------
(* The stdio servers as one specification: Init picks the program. *)

Init ==
    /\ server \in {"sqlite", "echo", "mock"}
    /\ pc = "start"
    /\ conn = "none"
    /\ env \in IF server = "sqlite" THEN [argc : 1..2, prefix : BOOLEAN]
               ELSE IF server = "echo" THEN [argc : 1..2, prefix : {TRUE}]
               ELSE [argc : {2}, prefix : {TRUE}]
    /\ store \in IF server = "sqlite"
                   THEN {[file |-> f, table |-> <<>>, durable |-> <<>>, in_txn |-> FALSE] :
                            f \in {"sqlite", "garbage", "missing", "directory"}}
                   ELSE {NoStore}
    /\ request_count = 0
    /\ line = Unset
    /\ request = Unset
    /\ response = Unset
    /\ called = "none"
    /\ outbuf = <<>>
    /\ stdout = <<>>
    /\ stderr = <<>>
    /\ consumed = <<>>
    /\ why = "none"
    /\ exit_status = -1
    /\ GeminiIdle

Next ==
    \/ SqliteNext
    \/ EchoNext
    \/ MockNext

Spec == Init /\ [][Next]_vars

----------------------------------------------------------------------------
(* Properties of the stdio servers *)

Last(q) == q[Len(q)]

IsEnvelope(l) == l.ty = "json"
IsMarked(l) == l.ty = "text"

\* the response envelopes among the lines of an output
Envelopes(out) == SelectSeq(out, IsEnvelope)

IdsOf(out) == [i \in 1..Len(out) |-> out[i].v.id]

IsJsonLine(l) == l.body.ty = "json"
IsRequestLine(l) == IF l.body.ty = "json" THEN IsObject(l.body.v) ELSE FALSE
HasId(l) == IF IsRequestLine(l)
              THEN IF "id" \in DOMAIN l.body.v THEN l.body.v.id # "null" ELSE FALSE
              ELSE FALSE

\* the non-null ids the client sent, in the order it sent them
SentIds == LET q == SelectSeq(consumed, HasId) IN [i \in 1..Len(q) |-> q[i].body.v.id]

Range(q) == {q[i] : i \in 1..Len(q)}

\* every line read has been dealt with
AtRest == pc = "read" \/ (pc = "exited" /\ why \in {"eof", "crash"})

\* C1: every line that decodes to a request with a non-null id yields exactly
\* one response bearing that id, no other response bears an id the client
\* sent, and the responses come in the order of their requests.
C1_OneResponsePerRequestInOrder ==
    AtRest =>
      LET WasSent(i) == i \in Range(SentIds)
      IN  SelectSeq(IdsOf(Envelopes(stdout)), WasSent) = SentIds

\* C2: the loop does not crash on a malformed line (text that is not JSON,
\* an empty line, JSON that is not an object).
C2_NoCrashOnMalformedInput ==
    ~(why = "crash" /\ consumed # <<>> /\ ~IsRequestLine(Last(consumed)))

\* C3: in the SQLite server no failure of a request to database/query,
\* database/execute or database/schema ends the process: whatever the handler
\* and the encoding of its result do, the loop goes on.
C3_NoRequestFailureIsFatal ==
    ~(server = "sqlite" /\ called # "none" /\ why = "crash")

\* C4: in the SQLite server a decoded request whose method is none of the three
\* database methods gets an error envelope with code -32601 that echoes its id
\* (and can be written), runs no handler and leaves the store as it was.
C4_UnknownMethod ==
    [][(/\ server = "sqlite"
        /\ pc = "decode"
        /\ pc' # "cleanup"
        /\ LoadsOk(line)
        /\ IsObject(Loads(line))
        /\ Get(Loads(line), "method", "None") \notin
              {"database/query", "database/execute", "database/schema"})
       => (/\ pc' = "print"
           /\ called' = "none"
           /\ store' = store
           /\ DOMAIN response' = {"jsonrpc", "id", "error"}
           /\ response'.error.code = -32601
           /\ response'.id = Get(Loads(line), "id", "1")
           /\ Encodable(response'))]_vars

C4_Witness ==
    /\ server = "sqlite"
    /\ pc = "read"
    /\ stdout # <<>>
    /\ IsEnvelope(Last(stdout))
    /\ "error" \in DOMAIN Last(stdout).v
    /\ Last(stdout).v.error.code = -32601
    /\ called = "none"

\* C5: every response envelope written, and every response built, holds
\* exactly one of the fields result and error.
C5_ResultXorError ==
    /\ \A i \in 1..Len(stdout \o outbuf) :
          IsEnvelope((stdout \o outbuf)[i]) =>
             (("result" \in DOMAIN (stdout \o outbuf)[i].v)
                 # ("error" \in DOMAIN (stdout \o outbuf)[i].v))
    /\ response # Unset => (("result" \in DOMAIN response) # ("error" \in DOMAIN response))

C5_Witness ==
    /\ Len(Envelopes(stdout)) = 2
    /\ "error" \in DOMAIN Envelopes(stdout)[1].v
    /\ "result" \in DOMAIN Envelopes(stdout)[2].v

\* the lines read that are not JSON, as read
NotJson(l) == ~IsJsonLine(l)
NonJsonLines == SelectSeq(consumed, NotJson)

\* the lines read that the SQLite server logs as invalid JSON
Logged(l) == ~IsJsonLine(l) /\ ~IsEmpty(Strip(l))
IsInvalidJsonLog(e) == e.msg = "Invalid JSON received: "

MarkedLines(out) == LET q == SelectSeq(out, IsMarked) IN [i \in 1..Len(q) |-> q[i].line]

\* C6 as stated: for every line that is not JSON each server, the SQLite
\* server included, writes the marker and the line to its output stream.
C6_EveryServerEchoes ==
    AtRest => MarkedLines(stdout) = NonJsonLines

\* C6 as amended: the echo and mock servers write, for every line that is not
\* JSON, one marked line holding the line as read; the SQLite server writes
\* nothing to its output stream for such a line and logs the stripped line,
\* cut to LogLimit characters, on the error channel unless it is blank; no
\* server answers such a line with an envelope or stops on it.
C6_EchoOrLog ==
    /\ server \in {"echo", "mock"} => MarkedLines(stdout) = NonJsonLines
    /\ server = "sqlite" =>
         /\ MarkedLines(stdout \o outbuf) = <<>>
         /\ pc = "read" =>
              LET logs == SelectSeq(stderr, IsInvalidJsonLog)
                  bad == SelectSeq(consumed, Logged)
              IN  logs = [i \in 1..Len(bad) |->
                            [msg |-> "Invalid JSON received: ",
                             text |-> Truncate(bad[i].body.s)]]
    /\ Len(Envelopes(stdout \o outbuf)) <= Len(SelectSeq(consumed, IsRequestLine))
    /\ (why = "crash" /\ consumed # <<>>) => IsJsonLine(Last(consumed))

C6_Witness ==
    /\ server = "echo"
    /\ Len(consumed) = 2
    /\ consumed[1].pad /\ ~IsJsonLine(consumed[1])
    /\ IsRequestLine(consumed[2])
    /\ Len(MarkedLines(stdout)) = 1

\* C7: the SQLite server has the response to a request written and flushed
\* before it reads the next line: while it waits for input nothing is left in
\* the buffer and every request read has its response on the output stream;
\* at no time is more than one request unanswered.
C7_StrictlySequential ==
    server = "sqlite" =>
      /\ pc = "read" =>
           /\ outbuf = <<>>
           /\ Len(Envelopes(stdout)) = Len(SelectSeq(consumed, IsRequestLine))
      /\ pc \in {"decode", "print", "flush"} =>
           Len(SelectSeq(consumed, IsRequestLine)) - Len(Envelopes(stdout)) <= 1

C7_Witness ==
    /\ server = "sqlite"
    /\ pc = "read"
    /\ Len(Envelopes(stdout)) = 2

\* C8: once started, the SQLite server stops only on end of input or on an
\* interrupt, and then the connection is closed and the exit status is 0.
C8_StopsOnlyOnEofOrInterrupt ==
    (server = "sqlite" /\ pc = "exited" /\ conn # "none") =>
       /\ why \in {"eof", "interrupt"}
       /\ conn = "closed"
       /\ exit_status = 0

\* C9: when the argument is missing, the connection string does not start
\* with sqlite:///, the database file is absent or the connect fails, the
\* SQLite server exits with a non-zero status before the loop: no line is
\* read, no envelope written, no statement run on the store.
C9_StartupFatal ==
    (/\ server = "sqlite"
     /\ pc # "start"
     /\ (env.argc < 2 \/ ~env.prefix \/ store.file \in {"missing", "directory"}))
    => /\ pc = "exited"
       /\ exit_status > 0
       /\ conn = "none"
       /\ consumed = <<>>
       /\ request_count = 0
       /\ Envelopes(stdout \o outbuf) = <<>>
       /\ called = "none"
       /\ store.table = <<>> /\ ~store.in_txn

C9_Witness ==
    /\ server = "sqlite"
    /\ pc = "exited"
    /\ env.argc = 2 /\ env.prefix
    /\ store.file = "missing"
    /\ exit_status = 1

----------------------------------------------------------------------------
(* Properties of the gemini server *)

\* C10: after store_context(key, content), and any further store_context
\* calls on other keys, the content handed to the delegate by query_gemini
\* with context_key = key is the content last stored under key.
C10_StoreThenRecall ==
    (/\ lastTool.name = "query_gemini"
     /\ delegate.tool.name = "query_gemini"
     /\ delegate.tool.context_key # NoKey
     /\ law[delegate.tool.context_key] \in Contents)
    => /\ delegate.has_context
       /\ delegate.handed = law[delegate.tool.context_key]


\* C11: a store under a key that was stored before leaves a record made of
\* the new content, the new metadata and the time of the new store only;
\* with absent or empty metadata nothing of the earlier metadata remains.
C11_OverwrittenWholesale ==
    lastTool.name = "store_context" =>
      LET a == lastTool.args
          meta == ContextPath(a.key, ".meta.json")
      IN  /\ files[ContextPath(a.key, ".context")] = a.content
          /\ IF a.metadata = "m"
               THEN /\ meta \in DOMAIN files
                    /\ files[meta] = <<[stored_at |-> a.at, metadata |-> a.metadata]>>
               ELSE meta \notin DOMAIN files

\* the keyed records of the store: everything but the response files
KeyedRecords(fs) == [p \in {q \in DOMAIN fs : q.suffix # ".txt"} |-> fs[p]]

\* C12: query_gemini with a context_key that has no record, and gemini_recall
\* without a memory record, call the delegate without a context reference,
\* return a result, raise no error and leave the records of the store alone.
C12_MissingKeyNotFatal ==
    [][(/\ calls' = calls + 1
        /\ \/ /\ lastTool'.name = "query_gemini"
              /\ lastTool'.args.context_key # NoKey
              /\ ContextPath(lastTool'.args.context_key, ".context") \notin DOMAIN files
           \/ /\ lastTool'.name = "gemini_recall"
              /\ MemoryPath \notin DOMAIN files)
       => (/\ delegate'.tool.name = lastTool'.name
           /\ ~delegate'.has_context
           /\ lastTool'.raised = "none"
           /\ KeyedRecords(files') = KeyedRecords(files))]_vars

\* C13: gemini_remember leaves the memory record equal to what it held before
\* (nothing, if there was none) followed by one entry made of the separator,
\* the time, the topic and the information.
C13_RememberAppends ==
    [][(calls' = calls + 1 /\ lastTool'.name = "gemini_remember")
       => files'[MemoryPath] =
            (IF MemoryPath \in DOMAIN files THEN files[MemoryPath] ELSE <<>>)
              \o <<[sep |-> "\n\n", at |-> now, topic |-> lastTool'.args.topic,
                    information |-> lastTool'.args.information]>>]_vars

IsEntry(piece, information) ==
    IF "information" \in DOMAIN piece THEN piece.information = information ELSE FALSE

C13_Witness ==
    /\ lastTool.name = "gemini_remember"
    /\ MemoryPath \in DOMAIN files
    /\ Len(files[MemoryPath]) = 2
    /\ IsEntry(files[MemoryPath][1], "i1")
    /\ IsEntry(files[MemoryPath][2], "i2")

PromptOf(tool) ==
    IF tool = "query_gemini" THEN "prompt"
    ELSE IF tool = "analyze_codebase" THEN "analysis_prompt"
    ELSE IF tool = "gemini_remember" THEN "memory_prompt"
    ELSE "recall_prompt"

\* C14: when the delegate executable is absent, the tool that called it
\* returns a result whose text holds the mock marker and the prompt, and
\* raises nothing.
C14_AbsentDelegateFallsBack ==
    lastTool.outcome = "absent" =>
      /\ lastTool.name \in {"query_gemini", "analyze_codebase", "gemini_remember",
                            "gemini_recall"}
      /\ lastTool.raised = "none"
      /\ Len(lastTool.text) >= 2
      /\ lastTool.text[1] = [s |-> "[Mock Gemini Response]"]
      /\ lastTool.text[2] = [s |-> PromptOf(lastTool.name)]
      /\ delegate.prompt = PromptOf(lastTool.name)

C14_Witness ==
    /\ lastTool.outcome = "absent"
    /\ lastTool.name = "gemini_recall"
    /\ calls = MaxCalls
    /\ MemoryPath \in DOMAIN files

\* C15: when the delegate exits with a non-zero status, call_tool gives
\* back a result that reports the failure; nothing is raised out of it.
C15_NonZeroExitIsReported ==
    lastTool.outcome = "nonzero" => lastTool.raised = "none"


\* -------- further properties of the stdio servers --------

\* C16: the id of a response is the id of the request it answers; a request
\* without an id field is never answered under an id the client did not send.
C16_IdEchoedVerbatim ==
    (IsObject(request) /\ response # Unset) =>
      response.id = (IF "id" \in DOMAIN request THEN request.id ELSE "null")

HasMethod(l) == IF IsRequestLine(l) THEN "method" \in DOMAIN l.body.v ELSE FALSE

\* C18: only a line that decodes to an object with a method field is answered
\* with an envelope, so there are never more envelopes than such lines.
C18_OnlyRequestsAnswered ==
    Len(Envelopes(stdout \o outbuf)) <= Len(SelectSeq(consumed, HasMethod))

\* C19: the echo and mock servers answer a request for a method they do not
\* know with an error envelope, never with a result.
C19_UnknownMethodIsError ==
    (/\ server \in {"echo", "mock"}
     /\ IsObject(request)
     /\ Get(request, "method", "query") \notin {"query"}
     /\ response # Unset)
    => ("error" \in DOMAIN response /\ "result" \notin DOMAIN response)

\* C20: in the SQLite server, with every line read dealt with, the output
\* holds envelopes only, one for each line that decoded.
C20_StdoutIsResponsesOnly ==
    (server = "sqlite" /\ pc # "start" /\ AtRest) =>
      /\ \A i \in 1..Len(stdout) : IsEnvelope(stdout[i])
      /\ Len(stdout) = Len(SelectSeq(consumed, LoadsOk))


\* -------- properties of instances sharing the context directory --------

\* what a recall of the key hands to the delegate in this state
Recalled(key) ==
    Command("query_gemini", "prompt", ContextPath(key, ".context"), files).handed

\* C17: once both instances have completed a store_context under the same
\* key, the content recalled for the key is exactly the content one of the
\* two stored.
C17_LastWriterWins ==
    (/\ \A i \in Instances : inst[i].pc = "idle" /\ inst[i].stored > 0
     /\ inst[1].key = inst[2].key)
    => Recalled(inst[1].key) \in {inst[1].content, inst[2].content}


\* -------- the request counter of the SQLite server --------

\* the count the SQLite server reports at line 97
ReportedCounts ==
    LET IsReport(e) == e.msg = "Processed requests"
        q == SelectSeq(stderr, IsReport)
    IN  {q[i].n : i \in 1..Len(q)}

\* C21: when the SQLite server has left its loop on end of input, the count
\* it reports is the number of responses it wrote.
C21_CountIsResponsesWritten ==
    (server = "sqlite" /\ pc = "exited" /\ why = "eof") =>
      ReportedCounts = {Len(Envelopes(stdout))}


\* -------- the memory record of the gemini server --------

IsPrefix(p, q) == Len(p) <= Len(q) /\ SubSeq(q, 1, Len(p)) = p

\* the memory record holds at least one entry written by gemini_remember
Remembered(fs) ==
    IF MemoryPath \in DOMAIN fs
      THEN \E i \in 1..Len(fs[MemoryPath]) : "information" \in DOMAIN fs[MemoryPath][i]
      ELSE FALSE

\* C22: no tool call of one instance ever removes or shortens the memory
\* record accumulated by gemini_remember: what it held before a step is a
\* prefix of what it holds after.
C22_MemoryOnlyExtended ==
    [][Remembered(files)
       => (/\ MemoryPath \in DOMAIN files'
           /\ IsPrefix(files[MemoryPath], files'[MemoryPath]))]_vars

\* C23: whatever the delegate does, a gemini_remember call leaves its entry
\* at the end of the memory record, and the command line of the delegate
\* refers to the memory record as it is with the entry in it.
C23_PersistsBeforeDelegating ==
    [][(calls' = calls + 1 /\ lastTool'.name = "gemini_remember")
       => LET entry == [sep |-> "\n\n", at |-> now, topic |-> lastTool'.args.topic,
                        information |-> lastTool'.args.information]
          IN  /\ lastTool'.outcome \in Outcomes
              /\ MemoryPath \in DOMAIN files'
              /\ Last(files'[MemoryPath]) = entry
              /\ delegate'.tool.name = "gemini_remember"
              /\ delegate'.has_context
              /\ delegate'.context_file = MemoryPath
              /\ delegate'.handed = files'[MemoryPath]]_vars

C23_Witness ==
    /\ lastTool.name = "gemini_remember"
    /\ lastTool.outcome = "nonzero"
    /\ lastTool.raised = "GeminiError"
    /\ MemoryPath \in DOMAIN files
    /\ Len(files[MemoryPath]) = 2
    /\ IsEntry(Last(files[MemoryPath]), lastTool.args.information)
    /\ delegate.handed = files[MemoryPath]

\* -------- what query_gemini changes --------

\* C24: a query_gemini call whose delegate returned and that was asked to
\* store the response adds or replaces one response file, holding the text
\* it returns, and changes nothing else; every other query_gemini call
\* leaves the store as it was; the record of context_key is never changed.
C24_QueryWritesOnlyTheResponse ==
    [][(calls' = calls + 1 /\ lastTool'.name = "query_gemini")
       => LET a == lastTool'.args
              record == ContextPath(IF a.context_key = NoKey THEN <<"">> ELSE a.context_key,
                                    ".context")
          IN  /\ IF a.store_response /\ lastTool'.outcome # "nonzero"
                   THEN /\ lastTool'.raised = "none"
                        /\ DOMAIN files' = DOMAIN files \cup {ResponsePath(now)}
                        /\ files'[ResponsePath(now)] = lastTool'.text
                        /\ \A p \in DOMAIN files \ {ResponsePath(now)} : files'[p] = files[p]
                        /\ lastTool'.outcome = "absent"
                             => lastTool'.text[1] = [s |-> "[Mock Gemini Response]"]
                   ELSE files' = files
              /\ a.context_key # NoKey
                   => /\ (record \in DOMAIN files') = (record \in DOMAIN files)
                      /\ record \in DOMAIN files => files'[record] = files[record]]_vars

C24_Witness ==
    /\ lastTool.name = "query_gemini"
    /\ lastTool.outcome = "absent"
    /\ lastTool.args.store_response
    /\ lastTool.args.context_key = <<"a">>
    /\ delegate.has_context
    /\ \E t \in 0..MaxTime :
         /\ ResponsePath(t) \in DOMAIN files
         /\ files[ResponsePath(t)] = lastTool.text
    /\ files[ContextPath(<<"a">>, ".context")] = delegate.handed

\* -------- commits of the SQLite server --------

\* C25: what is durable in the store changes only in a database/execute
\* whose statement the store accepted, and such a call leaves everything
\* done on the connection so far durable before its response is printed;
\* database/query, database/schema, unknown methods and a failing
\* database/execute leave what is durable as it was.
C25_OnlyExecuteCommits ==
    [][(server = "sqlite" /\ pc = "decode" /\ pc' = "print")
       => /\ (store'.durable # store.durable)
               => (called' = "handle_execute" /\ "result" \in DOMAIN response')
          /\ (called' = "handle_execute" /\ "result" \in DOMAIN response')
               => (store'.durable = store'.table /\ ~store'.in_txn)]_vars

====
